---------------------------- MODULE Spec2Model ----------------------------
(***************************************************************************)
(* Model of aioxmppd's XML stream framing layer, module                    *)
(* aioxmppd/network/XMLStreamProcessors.py.                                *)
(*                                                                         *)
(* XMLStreamHandler is a SAX content handler: every public method is one   *)
(* atomic action below.  The collaborators that live outside the           *)
(* repository (the xso.SAXDriver wrapping the stanza parser, the JID and   *)
(* LanguageTag parsers, the owner's callbacks) are the environment: each   *)
(* call into them takes its outcome (return or raise) from a small set.    *)
(*                                                                         *)
(* Besides the handler's fields, four variables record what the last       *)
(* operation did as seen from outside (op, raised, forwarded, fired), and  *)
(* three history variables follow the consumer's faults: undelivered       *)
(* counts the errors stored and not yet delivered, fault_depth is the      *)
(* depth of the element whose callback raised, recovery how far the        *)
(* document has got since a fault was delivered.                           *)
(***************************************************************************)
EXTENDS Integers, Sequences, FiniteSets

(***************************************************************************)
(* Bounds of the model.                                                    *)
(***************************************************************************)
\* Deepest element nesting the event source produces.
MaxDepth == 3
\* How far below zero the depth counter is followed.
MaxBelow == 1

(***************************************************************************)
(* Values.                                                                 *)
(***************************************************************************)
\* Python's None for string-valued fields.
None == "None"
\* self._depth = None: the depth before the first startDocument.
NoDepth == -1000

\* Optional values of structured type: <<>> is None, <<v>> is v.
Nothing == << >>
Some(v) == <<v>>

\* class HandlerState
CLEAN == "CLEAN"
STARTED == "STARTED"
STREAM_HEADER_PROCESSED == "STREAM_HEADER_PROCESSED"
STREAM_FOOTER_PROCESSED == "STREAM_FOOTER_PROCESSED"
EXCEPTION == "EXCEPTION"
HandlerState ==
    {CLEAN, STARTED, STREAM_HEADER_PROCESSED, STREAM_FOOTER_PROCESSED, EXCEPTION}

\* What an operation can raise to its caller.
RuntimeError == "RuntimeError"
RESTRICTED_XML == "StreamError:RESTRICTED_XML"
INVALID_NAMESPACE == "StreamError:INVALID_NAMESPACE"
UNDEFINED_CONDITION == "StreamError:UNDEFINED_CONDITION"
UNSUPPORTED_VERSION == "StreamError:UNSUPPORTED_VERSION"
ValueError == "ValueError"
CallbackError == "CallbackError"

\* The errors the element consumer raises.
ConsumerErrors == {"exc1", "exc2"}
\* Outcome of one call into the element consumer.
ConsumerOutcomes == {"ok"} \cup ConsumerErrors
\* Outcome of one call of an owner callback.
CallbackOutcomes == {"ok", "raise"}

\* The stanza parser objects: p0 is the xso.XSOParser() made by __init__, p1 one
\* the owner makes; the owner can install either.
Parsers == {"p0", "p1"}
\* A callback slot holds None or a callable.
Callable == "callable"
Slots == {None, Callable}

\* Qualified names (namespace URI, local name).
STREAM_NS == "http://etherx.jabber.org/streams"
XML_NS == "http://www.w3.org/XML/1998/namespace"
STREAM_TAG == <<STREAM_NS, "stream">>
ElementNames == {STREAM_TAG, <<STREAM_NS, "bar">>, <<"uri:foo", "stream">>}


(***************************************************************************)
(* Header attributes.  A text is a sequence of one-character strings, so   *)
(* that splitting and integer parsing are computed, not assumed.           *)
(***************************************************************************)
Digits == {"0", "1", "2", "3", "4", "5", "6", "7", "8", "9"}

DigitValue(c) ==
    CASE c = "0" -> 0 [] c = "1" -> 1 [] c = "2" -> 2 [] c = "3" -> 3
      [] c = "4" -> 4 [] c = "5" -> 5 [] c = "6" -> 6 [] c = "7" -> 7
      [] c = "8" -> 8 [] c = "9" -> 9

\* str.split("."): the pieces between the dots, empty pieces kept.
RECURSIVE Split(_)
Split(s) ==
    IF \A i \in 1..Len(s) : s[i] # "."
    THEN <<s>>
    ELSE LET i == CHOOSE k \in 1..Len(s) :
                      s[k] = "." /\ \A j \in 1..(k - 1) : s[j] # "."
         IN  <<SubSeq(s, 1, i - 1)>> \o Split(SubSeq(s, i + 1, Len(s)))

\* int(text) raises ValueError unless text is an optionally signed, non-empty
\* run of decimal digits (the texts of VersionTexts hold no blanks or "_").
Unsigned(t) == IF Len(t) > 0 /\ t[1] \in {"+", "-"} THEN Tail(t) ELSE t
IntParses(t) == Len(Unsigned(t)) > 0 /\ \A i \in 1..Len(Unsigned(t)) : Unsigned(t)[i] \in Digits

RECURSIVE DecimalValue(_)
DecimalValue(t) ==
    IF Len(t) = 0 THEN 0
    ELSE 10 * DecimalValue(SubSeq(t, 1, Len(t) - 1)) + DigitValue(t[Len(t)])

int(t) == IF Len(t) > 0 /\ t[1] = "-" THEN 0 - DecimalValue(Unsigned(t))
          ELSE DecimalValue(Unsigned(t))

\* tuple(map(int, text.split("."))): Nothing stands for the ValueError.
ParseVersion(text) ==
    LET parts == Split(text)
    IN  IF \A i \in 1..Len(parts) : IntParses(parts[i])
        THEN Some([i \in 1..Len(parts) |-> int(parts[i])])
        ELSE Nothing

\* The default of attributes.pop((None, "version"), "0.9").
DefaultVersionText == <<"0", ".", "9">>

\* The version attribute texts the event source sends: "1.0", "foobar"
\* (shortened to "fb") and "1".
VersionTexts == { <<"1", ".", "0">>, <<"f", "b">>, <<"1">> }

\* structs.JID.fromstr: the address texts sent, and the JID each parses to
\* (Nothing: fromstr raises ValueError, as for an empty domain).
JID_fromstr(text) ==
    CASE text = "foo@example.test" ->
             Some([localpart |-> "foo", domain |-> "example.test"])
      [] text = "example.test" ->
             Some([localpart |-> None, domain |-> "example.test"])
      [] OTHER -> Nothing

\* structs.LanguageTag.fromstr: Nothing when it raises ValueError.
LanguageTexts == {"en", ""}
LanguageTag_fromstr(text) ==
    IF text = "en" THEN Some([match_str |-> "en"]) ELSE Nothing

\* The attribute dictionaries of a stream header: each key absent (Nothing)
\* or present with a text.
FromAttrs == {Nothing} \cup {Some(t) : t \in {"foo@example.test", "@"}}
ToAttrs == {Nothing} \cup {Some(t) : t \in {"example.test", "@"}}
VersionAttrs == {Nothing} \cup {Some(t) : t \in VersionTexts}
LangAttrs == {Nothing} \cup {Some(t) : t \in LanguageTexts}
Attributes ==
    [from : FromAttrs, to : ToAttrs, version : VersionAttrs, lang : LangAttrs]

\* The headers sent where the stream's children are followed: the header of
\* the tests, a header with nothing but "to", one without "to" and one with
\* an unparsable version.
TEST_STREAM_HEADER_ATTRS ==
    [from |-> Some("foo@example.test"), to |-> Some("example.test"),
     version |-> Some(<<"1", ".", "0">>), lang |-> Some("en")]
HeaderSamples ==
    { TEST_STREAM_HEADER_ATTRS,
      [from |-> Nothing, to |-> Some("example.test"),
       version |-> Nothing, lang |-> Nothing],
      [TEST_STREAM_HEADER_ATTRS EXCEPT !.to = Nothing],
      [TEST_STREAM_HEADER_ATTRS EXCEPT !.version = Some(<<"f", "b">>)] }

(***************************************************************************)
(* State of one XMLStreamHandler.                                          *)
(***************************************************************************)
VARIABLES
    _state,             \* self._state
    _depth,             \* self._depth
    _stored_exception,  \* self._stored_exception
    _stanza_parser,     \* self._stanza_parser: the configured parser
    _driver,            \* self._driver: the parser the SAXDriver wraps, or None
    parser_lang,        \* the lang attribute of each parser object
    on_stream_header,   \* callback slots
    on_stream_footer,
    on_exception,
    remote_version,     \* client data
    remote_from,
    remote_to,
    remote_lang,
    op,                 \* the last method called
    raised,             \* what that call raised to its caller, or None
    forwarded,          \* the calls it made into the SAXDriver, in order
    fired,              \* the owner callbacks it invoked, in order
    undelivered,        \* consumer errors stored and not yet handed to
                        \* on_exception or re-raised
    fault_depth,        \* depth of the element whose callback raised the
                        \* error that is stored or that the last call
                        \* delivered (the element itself counted)
    recovery,           \* in this document: "none", "reported" once a fault
                        \* was delivered, "sibling" once a later child of
                        \* the root was closed through the consumer
    _to,                \* XMLStreamWriter: self._to, None or the peer address
    _nsmap_to_use,      \* self._nsmap_to_use, as (prefix, uri) pairs
    _sorted_attributes, \* the sorted_attributes argument
    writer_state,       \* NotStarted, Open, Closed or Aborted
    sink,               \* the tokens written to f, in order
    flushed             \* how many of them the last flush covered

handler == <<_state, _depth, _stored_exception, _stanza_parser, _driver>>
parsers == <<parser_lang>>
callbacks == <<on_stream_header, on_stream_footer, on_exception>>
remote == <<remote_version, remote_from, remote_to, remote_lang>>
observed == <<op, raised, forwarded, fired>>
history == <<undelivered, fault_depth, recovery>>
writer == <<_to, _nsmap_to_use, _sorted_attributes, writer_state, sink, flushed>>
vars == <<handler, parsers, callbacks, remote, observed, history, writer>>

\* One call into the SAXDriver: the parser behind it, the event, the
\* qualified name (Nothing for text) and how the call ended.
Call(parser, event, name, outcome) ==
    [parser |-> parser, event |-> event, name |-> name, outcome |-> outcome]
\* One invocation of an owner callback: its argument (None if it takes none)
\* and what it can read of the handler while it runs: the client data and
\* the parsers' languages.
FireSeeing(callback, arg, data, langs) ==
    [callback |-> callback, arg |-> arg,
     seen |-> [remote |-> data, parser_lang |-> langs]]
\* An invocation by a method that has not touched the client data.
Fire(callback, arg) == FireSeeing(callback, arg, remote, parser_lang)

\* What a callback that ended with `cb` makes its caller raise.
CallbackRaises(cb) == IF cb = "raise" THEN CallbackError ELSE None
\* The ways a call of the callback in `slot` can end (an empty slot is not
\* called: one outcome stands for it).
OutcomesOf(slot) == IF slot = None THEN {"ok"} ELSE CallbackOutcomes

(***************************************************************************)
(* XMLStreamWriter: values.                                                *)
(***************************************************************************)
\* Most start() calls and most objects sent on one writer.
MaxStarts == 2
MaxSends == 2

\* Where a writer is in its life.
NotStarted == "NotStarted"
Open == "Open"
Closed == "Closed"
Aborted == "Aborted"

\* The arguments the writers are built with.
TEST_ID == "id0"
TEST_FROM == "example.test"
TEST_TO == "foo@example.test"
\* Default of the version parameter.
DefaultVersion == <<1, 0>>
\* The nsmap arguments: none, and the default namespace of client streams.
NsMaps == { {}, {<<None, "jabber:client">>} }

\* str() of a small non-negative integer.
DigitText(n) ==
    CASE n = 0 -> "0" [] n = 1 -> "1" [] n = 2 -> "2" [] n = 3 -> "3"
      [] n = 4 -> "4" [] n = 5 -> "5" [] n = 6 -> "6" [] n = 7 -> "7"
      [] n = 8 -> "8" [] n = 9 -> "9"
\* ".".join(map(str, version))
RECURSIVE JoinVersion(_)
JoinVersion(version) ==
    IF Len(version) = 0 THEN ""
    ELSE IF Len(version) = 1 THEN DigitText(version[1])
    ELSE DigitText(version[1]) \o "." \o JoinVersion(Tail(version))

\* What reaches the sink, as tokens: the XML declaration, the open tag of
\* the stream root with its namespace declarations and then its attributes,
\* one serialised object, the closing tag of the stream root.
Token(kind, decls, attrs, obj) ==
    [kind |-> kind, decls |-> decls, attrs |-> attrs, obj |-> obj]
Preamble == Token("preamble", {}, << >>, Nothing)
RootOpen(decls, attrs) == Token("root_open", decls, attrs, Nothing)
Object(obj) == Token("object", {}, << >>, Some(obj))
RootClose == Token("root_close", {}, << >>, Nothing)
\* How many tokens of a kind the sink holds.
Count(kind) == Cardinality({i \in DOMAIN sink : sink[i].kind = kind})

\* The objects handed to send(): a Cls, which has no text, and a Cls2 with
\* the text "foo" or "foo\\0", the text a sequence of characters.  NUL
\* cannot be written in XML.
NUL == "\\0"
IllegalCharacters == {NUL}
Objects ==
    { [tag |-> <<"uri:foo", "bar">>, text |-> << >>],
      [tag |-> <<"uri:foo", "foo">>, text |-> <<"f", "o", "o">>],
      [tag |-> <<"uri:foo", "foo">>, text |-> <<"f", "o", "o", NUL>>] }
Serialisable(obj) ==
    \A i \in DOMAIN obj.text : obj.text[i] \notin IllegalCharacters

(***************************************************************************)
(* XMLStreamWriter.__init__                                                *)
(***************************************************************************)
XMLStreamWriter__init___writes(to, nsmap, sorted_attributes) ==
    /\ _to = to
    /\ _nsmap_to_use = {<<"stream", STREAM_NS>>} \cup nsmap
    /\ _sorted_attributes = sorted_attributes
    /\ writer_state = NotStarted
    /\ sink = <<Preamble>>
    /\ flushed = 0

XMLStreamWriter__init__(to, nsmap, sorted_attributes) ==
    /\ _to = to
    /\ _nsmap_to_use = {<<"stream", STREAM_NS>>} \cup nsmap
    /\ _sorted_attributes = sorted_attributes
    /\ writer_state = NotStarted
    /\ sink = << >>
    /\ flushed = 0

(***************************************************************************)
(* XMLStreamHandler.__init__                                               *)
(***************************************************************************)
XMLStreamHandler__init__ ==
    /\ _state = CLEAN
    /\ _stanza_parser = "p0"
    /\ _depth = NoDepth
    /\ _stored_exception = None
    /\ _driver = None
    /\ parser_lang = [p \in Parsers |-> Nothing]
    /\ on_stream_header = None
    /\ on_stream_footer = None
    /\ on_exception = None
    /\ remote_version = Nothing
    /\ remote_from = Nothing
    /\ remote_to = Nothing
    /\ remote_lang = Nothing
    /\ op = "__init__"
    /\ raised = None
    /\ forwarded = << >>
    /\ fired = << >>
    /\ undelivered = 0
    /\ fault_depth = NoDepth
    /\ recovery = "none"

\* A handler, beside a writer built with the default arguments.
Init == XMLStreamHandler__init__ /\ XMLStreamWriter__init__(None, {}, FALSE)

\* A call that neither stores nor delivers a consumer error.
NoFault ==
    /\ fault_depth' = IF _state = EXCEPTION THEN fault_depth ELSE NoDepth
    /\ UNCHANGED <<undelivered, recovery>>

\* The method `method` raises `error` and changes nothing.
Rejects(method, error) ==
    /\ op' = method
    /\ raised' = error
    /\ forwarded' = << >>
    /\ fired' = << >>
    /\ UNCHANGED <<handler, parsers, callbacks, remote>>
    /\ NoFault

\* The owner assigns a callback slot.
SetOnStreamHeader(value) ==
    /\ on_stream_header' = value
    /\ op' = "on_stream_header="
    /\ raised' = None /\ forwarded' = << >> /\ fired' = << >>
    /\ UNCHANGED <<handler, parsers, on_stream_footer, on_exception, remote>>
    /\ NoFault

SetOnStreamFooter(value) ==
    /\ on_stream_footer' = value
    /\ op' = "on_stream_footer="
    /\ raised' = None /\ forwarded' = << >> /\ fired' = << >>
    /\ UNCHANGED <<handler, parsers, on_stream_header, on_exception, remote>>
    /\ NoFault

SetOnException(value) ==
    /\ on_exception' = value
    /\ op' = "on_exception="
    /\ raised' = None /\ forwarded' = << >> /\ fired' = << >>
    /\ UNCHANGED <<handler, parsers, on_stream_header, on_stream_footer, remote>>
    /\ NoFault

\* stanza_parser setter
\* The setter's state check, were it to let every state through.
stanza_parser_accepts_anytime == _state \in HandlerState

stanza_parser_accepts == _state = CLEAN

\* The setter installing the parser without handing it the language.
stanza_parser_setter_keeps_lang(value) ==
    IF ~stanza_parser_accepts
    THEN Rejects("stanza_parser=", RuntimeError)
    ELSE /\ _stanza_parser' = value
         /\ op' = "stanza_parser="
         /\ raised' = None /\ forwarded' = << >> /\ fired' = << >>
         /\ UNCHANGED <<_state, _depth, _stored_exception, _driver,
                        parser_lang, callbacks, remote>>
         /\ NoFault

stanza_parser_setter(value) ==
    IF ~stanza_parser_accepts
    THEN Rejects("stanza_parser=", RuntimeError)
    ELSE /\ _stanza_parser' = value
         /\ parser_lang' = [parser_lang EXCEPT ![value] = remote_lang]
         /\ op' = "stanza_parser="
         /\ raised' = None /\ forwarded' = << >> /\ fired' = << >>
         /\ UNCHANGED <<_state, _depth, _stored_exception, _driver,
                        callbacks, remote>>
         /\ NoFault

\* processingInstruction
processingInstruction == Rejects("processingInstruction", RESTRICTED_XML)

\* startElement / endElement: the raw-name variants
startElement == Rejects("startElement", RuntimeError)
endElement == Rejects("endElement", RuntimeError)

\* startPrefixMapping / endPrefixMapping
startPrefixMapping ==
    /\ op' = "startPrefixMapping"
    /\ raised' = None /\ forwarded' = << >> /\ fired' = << >>
    /\ UNCHANGED <<handler, parsers, callbacks, remote>>
    /\ NoFault

endPrefixMapping ==
    /\ op' = "endPrefixMapping"
    /\ raised' = None /\ forwarded' = << >> /\ fired' = << >>
    /\ UNCHANGED <<handler, parsers, callbacks, remote>>
    /\ NoFault

\* characters with the consumer's error captured as startElementNS does.
characters_captures(outcome) ==
    IF _state = EXCEPTION
    THEN /\ op' = "characters"
         /\ raised' = None /\ forwarded' = << >> /\ fired' = << >>
         /\ UNCHANGED <<handler, parsers, callbacks, remote>>
         /\ NoFault
    ELSE IF _state # STREAM_HEADER_PROCESSED
    THEN Rejects("characters", RuntimeError)
    ELSE /\ op' = "characters"
         /\ forwarded' = <<Call(_driver, "characters", Nothing, outcome)>>
         /\ raised' = None
         /\ fired' = << >>
         /\ _state' = IF outcome = "ok" THEN _state ELSE EXCEPTION
         /\ _stored_exception' = IF outcome = "ok" THEN None ELSE outcome
         /\ UNCHANGED <<_depth, _stanza_parser, _driver>>
         /\ UNCHANGED <<parsers, callbacks, remote>>
         /\ NoFault

\* characters forwarding also while an error is stored.
characters_while_stored(outcome) ==
    IF _state \notin {STREAM_HEADER_PROCESSED, EXCEPTION}
    THEN Rejects("characters", RuntimeError)
    ELSE /\ op' = "characters"
         /\ forwarded' = <<Call(_driver, "characters", Nothing, outcome)>>
         /\ raised' = IF outcome = "ok" THEN None ELSE outcome
         /\ fired' = << >>
         /\ UNCHANGED <<handler, parsers, callbacks, remote>>
         /\ NoFault

\* characters
characters(outcome) ==
    IF _state = EXCEPTION
    THEN /\ op' = "characters"
         /\ raised' = None /\ forwarded' = << >> /\ fired' = << >>
         /\ UNCHANGED <<handler, parsers, callbacks, remote>>
         /\ NoFault
    ELSE IF _state # STREAM_HEADER_PROCESSED
    THEN Rejects("characters", RuntimeError)
    ELSE /\ op' = "characters"
         /\ forwarded' = <<Call(_driver, "characters", Nothing, outcome)>>
         /\ raised' = IF outcome = "ok" THEN None ELSE outcome
         /\ fired' = << >>
         /\ UNCHANGED <<handler, parsers, callbacks, remote>>
         /\ NoFault

\* startDocument
\* startDocument without its state check.
startDocument_unguarded ==
    /\ _state' = STARTED
    /\ _depth' = 0
    /\ _driver' = _stanza_parser
    /\ op' = "startDocument"
    /\ raised' = None /\ forwarded' = << >> /\ fired' = << >>
    /\ UNCHANGED <<_stored_exception, _stanza_parser,
                   parsers, callbacks, remote, undelivered>>
    /\ fault_depth' = NoDepth
    /\ recovery' = "none"

startDocument ==
    IF _state # CLEAN
    THEN Rejects("startDocument", RuntimeError)
    ELSE /\ _state' = STARTED
         /\ _depth' = 0
         /\ _driver' = _stanza_parser
         /\ op' = "startDocument"
         /\ raised' = None /\ forwarded' = << >> /\ fired' = << >>
         /\ UNCHANGED <<_stored_exception, _stanza_parser,
                        parsers, callbacks, remote, undelivered>>
         /\ fault_depth' = NoDepth
         /\ recovery' = "none"

\* endDocument also letting through a stream whose root is still open.
endDocument_unclosed ==
    IF _state \notin {STREAM_FOOTER_PROCESSED, STREAM_HEADER_PROCESSED}
    THEN Rejects("endDocument", RuntimeError)
    ELSE /\ _state' = CLEAN
         /\ _driver' = None
         /\ op' = "endDocument"
         /\ raised' = None /\ forwarded' = << >> /\ fired' = << >>
         /\ UNCHANGED <<_depth, _stored_exception, _stanza_parser,
                        parsers, callbacks, remote, undelivered>>
         /\ fault_depth' = NoDepth
         /\ recovery' = "none"

\* endDocument
endDocument ==
    IF _state # STREAM_FOOTER_PROCESSED
    THEN Rejects("endDocument", RuntimeError)
    ELSE /\ _state' = CLEAN
         /\ _driver' = None
         /\ op' = "endDocument"
         /\ raised' = None /\ forwarded' = << >> /\ fired' = << >>
         /\ UNCHANGED <<_depth, _stored_exception, _stanza_parser,
                        parsers, callbacks, remote, undelivered>>
         /\ fault_depth' = NoDepth
         /\ recovery' = "none"

\* _raise_exception going back to CLEAN instead of the open stream.
_raise_exception_resets(exc, d, stored, cb) ==
    /\ _state' = CLEAN
    /\ _stored_exception' = None
    /\ undelivered' = stored - 1
    /\ fault_depth' = d
    /\ recovery' = "reported"
    /\ IF on_exception # None
       THEN /\ fired' = <<Fire("on_exception", exc)>>
            /\ raised' = CallbackRaises(cb)
       ELSE /\ fired' = << >>
            /\ raised' = exc

\* _raise_exception that drops the error when no callback is registered.
_raise_exception_swallows(exc, d, stored, cb) ==
    /\ _state' = STREAM_HEADER_PROCESSED
    /\ _stored_exception' = None
    /\ undelivered' = stored - 1
    /\ fault_depth' = d
    /\ recovery' = "reported"
    /\ IF on_exception # None
       THEN /\ fired' = <<Fire("on_exception", exc)>>
            /\ raised' = CallbackRaises(cb)
       ELSE /\ fired' = << >>
            /\ raised' = None

\* _raise_exception without its first statement: the state is left as it is.
_raise_exception_keeps_state(exc, d, stored, cb) ==
    /\ UNCHANGED _state
    /\ _stored_exception' = None
    /\ undelivered' = stored - 1
    /\ fault_depth' = d
    /\ recovery' = "reported"
    /\ IF on_exception # None
       THEN /\ fired' = <<Fire("on_exception", exc)>>
            /\ raised' = CallbackRaises(cb)
       ELSE /\ fired' = << >>
            /\ raised' = exc

\* _raise_exception, called with exc = self._stored_exception, raised by an
\* element at depth d, and with `stored` errors stored so far; cb is how
\* on_exception ends when it is registered.
_raise_exception(exc, d, stored, cb) ==
    /\ _state' = STREAM_HEADER_PROCESSED
    /\ _stored_exception' = None
    /\ undelivered' = stored - 1
    /\ fault_depth' = d
    /\ recovery' = "reported"
    /\ IF on_exception # None
       THEN /\ fired' = <<Fire("on_exception", exc)>>
            /\ raised' = CallbackRaises(cb)
       ELSE /\ fired' = << >>
            /\ raised' = exc

\* Capture storing the error without entering EXCEPTION.
Capture_keeps_state(exc, d) ==
    /\ _stored_exception' = exc
    /\ UNCHANGED _state
    /\ undelivered' = undelivered + 1
    /\ fault_depth' = d

\* The except clauses of startElementNS and endElementNS: store the error
\* that the callback for an element at depth d raised.
Capture(exc, d) ==
    /\ _stored_exception' = exc
    /\ _state' = EXCEPTION
    /\ undelivered' = undelivered + 1
    /\ fault_depth' = d

\* The header with the state and the depth set as soon as "to" was read.
StreamHeader_early_state(attributes, cb) ==
    LET from == IF attributes.from = Nothing THEN Nothing
                ELSE JID_fromstr(attributes.from[1])
        to == IF attributes.to = Nothing THEN Nothing
              ELSE JID_fromstr(attributes.to[1])
        version == ParseVersion(IF attributes.version = Nothing
                                THEN DefaultVersionText
                                ELSE attributes.version[1])
        lang == IF attributes.lang = Nothing THEN Nothing
                ELSE LanguageTag_fromstr(attributes.lang[1])
        from_ok == attributes.from = Nothing \/ from # Nothing
        to_ok == to # Nothing
        version_ok == version # Nothing
        lang_ok == attributes.lang = Nothing \/ lang # Nothing
        callback_ok == on_stream_header = None \/ cb = "ok"
        \* the steps reached
        at_to == from_ok
        at_version == at_to /\ to_ok
        at_lang == at_version /\ version_ok
        at_callback == at_lang /\ lang_ok
        done == at_callback /\ callback_ok
    IN  /\ op' = "startElementNS"
        /\ forwarded' = << >>
        /\ remote_from' = IF at_to THEN from ELSE remote_from
        /\ remote_to' = IF at_version THEN to ELSE remote_to
        /\ remote_version' = IF at_lang THEN version[1] ELSE remote_version
        /\ remote_lang' = IF at_callback THEN lang ELSE remote_lang
        /\ parser_lang' = IF at_callback
                          THEN [parser_lang EXCEPT ![_stanza_parser] = lang]
                          ELSE parser_lang
        /\ fired' = IF at_callback /\ on_stream_header # None
                    THEN <<FireSeeing("on_stream_header", None,
                                      remote', parser_lang')>>
                    ELSE << >>
        /\ _state' = IF at_version THEN STREAM_HEADER_PROCESSED ELSE _state
        /\ _depth' = IF at_version THEN _depth + 1 ELSE _depth
        /\ raised' = IF ~from_ok THEN ValueError
                     ELSE IF attributes.to = Nothing THEN UNDEFINED_CONDITION
                     ELSE IF ~to_ok THEN ValueError
                     ELSE IF ~version_ok THEN UNSUPPORTED_VERSION
                     ELSE IF ~lang_ok THEN ValueError
                     ELSE IF ~callback_ok THEN CallbackError
                     ELSE None
        /\ UNCHANGED <<_stored_exception, _stanza_parser, _driver, callbacks>>
        /\ NoFault

\* startElementNS in state STARTED with the stream root's name: the stream
\* header.  Each step of the header code runs only if every step before it
\* returned.
StreamHeader(attributes, cb) ==
    LET from == IF attributes.from = Nothing THEN Nothing
                ELSE JID_fromstr(attributes.from[1])
        to == IF attributes.to = Nothing THEN Nothing
              ELSE JID_fromstr(attributes.to[1])
        version == ParseVersion(IF attributes.version = Nothing
                                THEN DefaultVersionText
                                ELSE attributes.version[1])
        lang == IF attributes.lang = Nothing THEN Nothing
                ELSE LanguageTag_fromstr(attributes.lang[1])
        from_ok == attributes.from = Nothing \/ from # Nothing
        to_ok == to # Nothing
        version_ok == version # Nothing
        lang_ok == attributes.lang = Nothing \/ lang # Nothing
        callback_ok == on_stream_header = None \/ cb = "ok"
        \* the steps reached
        at_to == from_ok
        at_version == at_to /\ to_ok
        at_lang == at_version /\ version_ok
        at_callback == at_lang /\ lang_ok
        done == at_callback /\ callback_ok
    IN  /\ op' = "startElementNS"
        /\ forwarded' = << >>
        /\ remote_from' = IF at_to THEN from ELSE remote_from
        /\ remote_to' = IF at_version THEN to ELSE remote_to
        /\ remote_version' = IF at_lang THEN version[1] ELSE remote_version
        /\ remote_lang' = IF at_callback THEN lang ELSE remote_lang
        /\ parser_lang' = IF at_callback
                          THEN [parser_lang EXCEPT ![_stanza_parser] = lang]
                          ELSE parser_lang
        /\ fired' = IF at_callback /\ on_stream_header # None
                    THEN <<FireSeeing("on_stream_header", None,
                                      remote', parser_lang')>>
                    ELSE << >>
        /\ _state' = IF done THEN STREAM_HEADER_PROCESSED ELSE _state
        /\ _depth' = IF done THEN _depth + 1 ELSE _depth
        /\ raised' = IF ~from_ok THEN ValueError
                     ELSE IF attributes.to = Nothing THEN UNDEFINED_CONDITION
                     ELSE IF ~to_ok THEN ValueError
                     ELSE IF ~version_ok THEN UNSUPPORTED_VERSION
                     ELSE IF ~lang_ok THEN ValueError
                     ELSE IF ~callback_ok THEN CallbackError
                     ELSE None
        /\ UNCHANGED <<_stored_exception, _stanza_parser, _driver, callbacks>>
        /\ NoFault

\* StartChild without the try/except: the driver's error reaches the caller
\* before the depth is counted.
StartChild_propagates(name, outcome) ==
    /\ op' = "startElementNS"
    /\ forwarded' = <<Call(_driver, "startElementNS", name, outcome)>>
    /\ _depth' = IF outcome = "ok" THEN _depth + 1 ELSE _depth
    /\ raised' = IF outcome = "ok" THEN None ELSE outcome
    /\ fired' = << >>
    /\ UNCHANGED <<_state, _stored_exception, _stanza_parser, _driver,
                   parsers, callbacks, remote>>
    /\ NoFault

\* startElementNS in state STREAM_HEADER_PROCESSED: forward to the driver,
\* capture what it raises.
StartChild(name, outcome) ==
    /\ op' = "startElementNS"
    /\ forwarded' = <<Call(_driver, "startElementNS", name, outcome)>>
    /\ IF outcome = "ok"
       THEN /\ UNCHANGED <<_state, _stored_exception>>
            /\ NoFault
       ELSE /\ Capture(outcome, _depth + 1)
            /\ UNCHANGED recovery
    /\ _depth' = _depth + 1
    /\ raised' = None
    /\ fired' = << >>
    /\ UNCHANGED <<_stanza_parser, _driver, parsers, callbacks, remote>>

\* StartSwallowed handing the element to the driver and storing its error
\* over the one already stored.
StartSwallowed_overwrites ==
    /\ op' = "startElementNS"
    /\ _depth' = _depth + 1
    /\ raised' = None /\ fired' = << >>
    /\ forwarded' = <<Call(_driver, "startElementNS", STREAM_TAG, "exc2")>>
    /\ _stored_exception' = "exc2"
    /\ UNCHANGED <<_state, _stanza_parser, _driver,
                   parsers, callbacks, remote>>
    /\ NoFault

\* StartSwallowed still handing the element to the driver.
StartSwallowed_forwards ==
    /\ op' = "startElementNS"
    /\ _depth' = _depth + 1
    /\ raised' = None /\ fired' = << >>
    /\ forwarded' = <<Call(_driver, "startElementNS", STREAM_TAG, "ok")>>
    /\ UNCHANGED <<_state, _stored_exception, _stanza_parser, _driver,
                   parsers, callbacks, remote>>
    /\ NoFault

\* startElementNS in state EXCEPTION: only count the depth.
StartSwallowed ==
    /\ op' = "startElementNS"
    /\ _depth' = _depth + 1
    /\ raised' = None /\ forwarded' = << >> /\ fired' = << >>
    /\ UNCHANGED <<_state, _stored_exception, _stanza_parser, _driver,
                   parsers, callbacks, remote>>
    /\ NoFault

\* The name test comparing the local name only.
IsStreamRoot_localname(name) == name[2] = STREAM_TAG[2]

\* The name test of the stream header.
IsStreamRoot(name) == name = STREAM_TAG

\* startElementNS
startElementNS(name, attributes) ==
    \/ /\ _state = STREAM_HEADER_PROCESSED
       /\ _depth < MaxDepth
       /\ \E outcome \in ConsumerOutcomes : StartChild(name, outcome)
    \/ /\ _state = EXCEPTION
       /\ _depth < MaxDepth
       /\ StartSwallowed
    \/ /\ _state = STARTED
       /\ ~IsStreamRoot(name)
       /\ Rejects("startElementNS", INVALID_NAMESPACE)
    \/ /\ _state = STARTED
       /\ IsStreamRoot(name)
       /\ \E cb \in OutcomesOf(on_stream_header) : StreamHeader(attributes, cb)
    \/ /\ _state \notin {STREAM_HEADER_PROCESSED, EXCEPTION, STARTED}
       /\ Rejects("startElementNS", RuntimeError)

\* EndChild without the report at depth 1: every error is left stored.
EndChild_always_defers(name, outcome, cb) ==
    /\ op' = "endElementNS"
    /\ _depth' = _depth - 1
    /\ forwarded' = <<Call(_driver, "endElementNS", name, outcome)>>
    /\ raised' = None /\ fired' = << >>
    /\ IF outcome = "ok"
       THEN /\ UNCHANGED <<_state, _stored_exception, undelivered>>
            /\ fault_depth' = NoDepth
            /\ recovery' = IF _depth' = 1 /\ recovery = "reported"
                            THEN "sibling" ELSE recovery
       ELSE /\ Capture(outcome, _depth)
            /\ UNCHANGED recovery
    /\ UNCHANGED <<_stanza_parser, _driver, parsers, callbacks, remote>>

\* endElementNS in state STREAM_HEADER_PROCESSED with a child open: forward
\* to the driver; capture what it raises and report it at depth 1.
EndChild(name, outcome, cb) ==
    /\ op' = "endElementNS"
    /\ _depth' = _depth - 1
    /\ forwarded' = <<Call(_driver, "endElementNS", name, outcome)>>
    /\ IF outcome = "ok"
       THEN /\ raised' = None /\ fired' = << >>
            /\ UNCHANGED <<_state, _stored_exception, undelivered>>
            /\ fault_depth' = NoDepth
            /\ recovery' = IF _depth' = 1 /\ recovery = "reported"
                            THEN "sibling" ELSE recovery
       ELSE IF _depth' = 1
       THEN _raise_exception(outcome, _depth, undelivered + 1, cb)
       ELSE /\ Capture(outcome, _depth)
            /\ raised' = None /\ fired' = << >>
            /\ UNCHANGED recovery
    /\ UNCHANGED <<_stanza_parser, _driver, parsers, callbacks, remote>>

\* endElementNS in state STREAM_HEADER_PROCESSED closing the root: the footer.
StreamFooter(cb) ==
    /\ op' = "endElementNS"
    /\ _depth' = _depth - 1
    /\ forwarded' = << >>
    /\ IF on_stream_footer # None
       THEN /\ fired' = <<Fire("on_stream_footer", None)>>
            /\ raised' = CallbackRaises(cb)
            /\ _state' = IF cb = "ok" THEN STREAM_FOOTER_PROCESSED ELSE _state
       ELSE /\ fired' = << >>
            /\ raised' = None
            /\ _state' = STREAM_FOOTER_PROCESSED
    /\ UNCHANGED <<_stored_exception, _stanza_parser, _driver,
                   parsers, callbacks, remote>>
    /\ NoFault

\* EndSwallowed reporting when the element that raised is closed.
EndSwallowed_matching(cb) ==
    /\ op' = "endElementNS"
    /\ _depth' = _depth - 1
    /\ forwarded' = << >>
    /\ IF _depth' = fault_depth - 1
       THEN _raise_exception(_stored_exception, fault_depth, undelivered, cb)
       ELSE /\ raised' = None /\ fired' = << >>
            /\ UNCHANGED <<_state, _stored_exception>>
            /\ NoFault
    /\ UNCHANGED <<_stanza_parser, _driver, parsers, callbacks, remote>>

\* EndSwallowed reporting one level early, at depth 2.
EndSwallowed_early(cb) ==
    /\ op' = "endElementNS"
    /\ _depth' = _depth - 1
    /\ forwarded' = << >>
    /\ IF _depth' = 2
       THEN _raise_exception(_stored_exception, fault_depth, undelivered, cb)
       ELSE /\ raised' = None /\ fired' = << >>
            /\ UNCHANGED <<_state, _stored_exception>>
            /\ NoFault
    /\ UNCHANGED <<_stanza_parser, _driver, parsers, callbacks, remote>>

\* endElementNS in state EXCEPTION: count the depth, report at depth 1.
EndSwallowed(cb) ==
    /\ op' = "endElementNS"
    /\ _depth' = _depth - 1
    /\ forwarded' = << >>
    /\ IF _depth' = 1
       THEN _raise_exception(_stored_exception, fault_depth, undelivered, cb)
       ELSE /\ raised' = None /\ fired' = << >>
            /\ UNCHANGED <<_state, _stored_exception>>
            /\ NoFault
    /\ UNCHANGED <<_stanza_parser, _driver, parsers, callbacks, remote>>

\* endElementNS
endElementNS(name) ==
    \/ /\ _state = STREAM_HEADER_PROCESSED
       /\ _depth > 0 - MaxBelow
       /\ _depth - 1 > 0
       /\ \E outcome \in ConsumerOutcomes, cb \in OutcomesOf(on_exception) :
              EndChild(name, outcome, cb)
    \/ /\ _state = STREAM_HEADER_PROCESSED
       /\ _depth > 0 - MaxBelow
       /\ ~(_depth - 1 > 0)
       /\ \E cb \in OutcomesOf(on_stream_footer) : StreamFooter(cb)
    \/ /\ _state = EXCEPTION
       /\ _depth > 0 - MaxBelow
       /\ \E cb \in OutcomesOf(on_exception) : EndSwallowed(cb)
    \/ /\ _state \notin {STREAM_HEADER_PROCESSED, EXCEPTION}
       /\ Rejects("endElementNS", RuntimeError)

(***************************************************************************)
(* XMLStreamWriter.start                                                   *)
(***************************************************************************)
\* The attributes of the stream header, in the order start() inserts them
\* into its dict.
HeaderAttrs ==
    <<<<"id", TEST_ID>>, <<"from", TEST_FROM>>,
      <<"version", JoinVersion(DefaultVersion)>>>>
    \o (IF _to # None THEN <<<<"to", _to>>>> ELSE << >>)

\* Place of an attribute name in the order of Python's str.
NameRank(name) ==
    CASE name = "from" -> 1 [] name = "id" -> 2
      [] name = "to" -> 3 [] name = "version" -> 4
\* sorted(attributes.items())
SortedByName(attrs) ==
    LET n == Len(attrs)
        p == CHOOSE f \in [1..n -> 1..n] :
                 \A i, j \in 1..n :
                     i < j => NameRank(attrs[f[i]][1]) < NameRank(attrs[f[j]][1])
    IN  [i \in 1..n |-> attrs[p[i]]]

\* The order the generator writes attributes in.
Emitted_sorted(attrs) == SortedByName(attrs)

Emitted(attrs) == IF _sorted_attributes THEN SortedByName(attrs) ELSE attrs

\* start() has no check of its own: every call writes a header.
start ==
    /\ writer_state \in {NotStarted, Open}
    /\ Count("preamble") < MaxStarts
    /\ sink' = sink \o <<Preamble, RootOpen(_nsmap_to_use, Emitted(HeaderAttrs))>>
    /\ flushed' = Len(sink')
    /\ writer_state' = Open
    /\ op' = "start"
    /\ raised' = None
    /\ UNCHANGED <<_to, _nsmap_to_use, _sorted_attributes>>

(***************************************************************************)
(* XMLStreamWriter.send, close and abort                                   *)
(***************************************************************************)
\* send() writes the object whole and flushes, or raises and writes nothing.
send_unbuffered(obj) ==
    /\ writer_state = Open
    /\ Count("object") < MaxSends
    /\ IF Serialisable(obj)
       THEN /\ sink' = Append(sink, Object(obj))
            /\ flushed' = Len(sink')
            /\ raised' = None
       ELSE /\ sink' = Append(sink, Token("partial", {}, << >>, Some(obj)))
            /\ flushed' = flushed
            /\ raised' = ValueError
    /\ op' = "send"
    /\ UNCHANGED <<_to, _nsmap_to_use, _sorted_attributes, writer_state>>

send(obj) ==
    /\ writer_state = Open
    /\ Count("object") < MaxSends
    /\ IF Serialisable(obj)
       THEN /\ sink' = Append(sink, Object(obj))
            /\ flushed' = Len(sink')
            /\ raised' = None
       ELSE /\ sink' = sink
            /\ flushed' = flushed
            /\ raised' = ValueError
    /\ op' = "send"
    /\ UNCHANGED <<_to, _nsmap_to_use, _sorted_attributes, writer_state>>

\* close() on an open writer writes the closing tag; on a closed or aborted
\* writer it does nothing.
close_unguarded ==
    /\ writer_state # NotStarted
    /\ sink' = Append(sink, RootClose)
    /\ flushed' = Len(sink')
    /\ writer_state' = Closed
    /\ op' = "close"
    /\ raised' = None
    /\ UNCHANGED <<_to, _nsmap_to_use, _sorted_attributes>>

close ==
    /\ writer_state # NotStarted
    /\ IF writer_state = Open
       THEN /\ sink' = Append(sink, RootClose)
            /\ flushed' = Len(sink')
            /\ writer_state' = Closed
       ELSE UNCHANGED <<sink, flushed, writer_state>>
    /\ op' = "close"
    /\ raised' = None
    /\ UNCHANGED <<_to, _nsmap_to_use, _sorted_attributes>>

\* abort() on an open writer gives the stream up without a closing tag; on
\* a closed or aborted writer it does nothing.
abort_closes ==
    /\ writer_state # NotStarted
    /\ IF writer_state = Open
       THEN /\ sink' = Append(sink, RootClose)
            /\ writer_state' = Aborted
       ELSE UNCHANGED <<sink, writer_state>>
    /\ op' = "abort"
    /\ raised' = None
    /\ UNCHANGED <<_to, _nsmap_to_use, _sorted_attributes, flushed>>

abort ==
    /\ writer_state # NotStarted
    /\ writer_state' = IF writer_state = Open THEN Aborted ELSE writer_state
    /\ op' = "abort"
    /\ raised' = None
    /\ UNCHANGED <<_to, _nsmap_to_use, _sorted_attributes, sink, flushed>>

(***************************************************************************)
(* The handler's owner and the event source call its methods in any order. *)
(***************************************************************************)
Next ==
    /\ \/ \E value \in Slots : SetOnStreamHeader(value)
       \/ \E value \in Slots : SetOnStreamFooter(value)
       \/ \E value \in Slots : SetOnException(value)
       \/ \E value \in Parsers : stanza_parser_setter(value)
       \/ processingInstruction
       \/ startElement
       \/ endElement
       \/ startPrefixMapping
       \/ endPrefixMapping
       \/ \E outcome \in ConsumerOutcomes : characters(outcome)
       \/ startDocument
       \/ endDocument
       \/ \E name \in ElementNames, attributes \in HeaderSamples :
              startElementNS(name, attributes)
       \/ \E name \in ElementNames : endElementNS(name)
    /\ UNCHANGED writer

Spec == Init /\ [][Next]_vars

\* The attribute dictionaries an event source can pass to startElementNS:
\* every dictionary for the stream header; the attributes of any other
\* element are not read by the handler, so one dictionary stands for all.
AttributesSent ==
    IF _state = STARTED THEN Attributes ELSE {TEST_STREAM_HEADER_ATTRS}

\* The handler fed streams with every header, by an owner that registers
\* on_stream_header only and keeps the parser of __init__.
HeaderNext ==
    /\ \/ \E value \in Slots : SetOnStreamHeader(value)
       \/ startDocument
       \/ endDocument
       \/ \E name \in ElementNames, attributes \in AttributesSent :
              startElementNS(name, attributes)
       \/ \E name \in ElementNames : endElementNS(name)
    /\ UNCHANGED writer

HeaderSpec == Init /\ [][HeaderNext]_vars

\* The handler with owner callbacks that return: no call ends with the
\* error of a callback.
QuietNext == Next /\ raised' # CallbackError

QuietSpec == Init /\ [][QuietNext]_vars

(***************************************************************************)
(* One XMLStreamWriter, built with each combination of arguments, beside   *)
(* a handler that is not used.                                             *)
(***************************************************************************)
WriterInit ==
    /\ XMLStreamHandler__init__
    /\ \E to \in {None, TEST_TO}, nsmap \in NsMaps, sorted_attributes \in BOOLEAN :
           XMLStreamWriter__init__(to, nsmap, sorted_attributes)

WriterNext ==
    /\ \/ start
       \/ \E obj \in Objects : send(obj)
       \/ close
       \/ abort
    /\ UNCHANGED <<handler, parsers, callbacks, remote, forwarded, fired, history>>

WriterSpec == WriterInit /\ [][WriterNext]_vars

(***************************************************************************)
(* Properties.                                                             *)
(***************************************************************************)
\* This step invoked on_exception.
OnExceptionFired == \E i \in DOMAIN fired' : fired'[i].callback = "on_exception"
\* This step is an endElementNS call that brings the depth to 1.
ClosesToDepthOne == op' = "endElementNS" /\ _depth' = 1
\* The consumer raised in this step's forwarded call.
ConsumerRaised ==
    /\ forwarded' # << >>
    /\ forwarded'[1].event \in {"startElementNS", "endElementNS"}
    /\ forwarded'[1].outcome \in ConsumerErrors

C1_Step ==
    /\ OnExceptionFired =>
           /\ ClosesToDepthOne
           /\ on_exception # None
           /\ _state = EXCEPTION \/ ConsumerRaised
           /\ fired' = <<Fire("on_exception",
                              IF _state = EXCEPTION THEN _stored_exception
                              ELSE forwarded'[1].outcome)>>
    /\ (_state = EXCEPTION /\ on_exception # None /\ ClosesToDepthOne) =>
           fired' = <<Fire("on_exception", _stored_exception)>>
    /\ (_state = EXCEPTION /\ ~ClosesToDepthOne) =>
           /\ _state' = EXCEPTION
           /\ _stored_exception' = _stored_exception
           /\ fired' = << >>

C1_Inv ==
    /\ undelivered = IF _stored_exception # None THEN 1 ELSE 0
    /\ _state = EXCEPTION <=> _stored_exception # None

\* C1: when the consumer's callback for an element under the root raises and
\* on_exception is registered, on_exception is invoked with the captured
\* error exactly once, in the endElementNS call that brings the depth back
\* to 1, and by no earlier event, however many opens and closes lie between.
C1_ReportedOnceAtDepthOne == [][C1_Step]_vars /\ []C1_Inv

\* A fault of a grandchild of the root (depth 3) was handed to on_exception
\* by the close that brought the depth to 1.
C1_Witness ==
    /\ op = "endElementNS"
    /\ _depth = 1
    /\ forwarded = << >>
    /\ fault_depth = 3
    /\ fired = <<Fire("on_exception", "exc2")>>

C2_Step ==
    (op' = "startElementNS" /\ _state = STREAM_HEADER_PROCESSED) =>
        /\ Len(forwarded') = 1
        /\ forwarded'[1].parser = _driver
        /\ forwarded'[1].event = "startElementNS"
        /\ raised' = None
        /\ fired' = << >>
        /\ _depth' = _depth + 1
        /\ IF forwarded'[1].outcome \in ConsumerErrors
           THEN /\ _state' = EXCEPTION
                /\ _stored_exception' = forwarded'[1].outcome
           ELSE /\ _state' = STREAM_HEADER_PROCESSED
                /\ _stored_exception' = _stored_exception

\* C2: when startElementNS is called in state STREAM_HEADER_PROCESSED and the
\* consumer's begin-element callback raises, the call returns normally, the
\* state becomes EXCEPTION, the error is stored as the pending fault and the
\* depth grows by exactly 1, as it does when the consumer does not raise.
C2_BeginFaultCaptured == [][C2_Step]_vars

\* A begin-element error was captured: the call raised nothing.
C2_Witness ==
    /\ op = "startElementNS"
    /\ forwarded # << >>
    /\ forwarded[1].outcome = "exc1"
    /\ _state = EXCEPTION
    /\ _stored_exception = "exc1"
    /\ raised = None
    /\ _depth = 2

\* What a handler with no fault behind it does with a child of the root.
RoutesNormally ==
    /\ (_state = STREAM_HEADER_PROCESSED /\ op' = "startElementNS") =>
           /\ Len(forwarded') = 1
           /\ forwarded'[1].parser = _driver
           /\ forwarded'[1].event = "startElementNS"
           /\ forwarded'[1].name \in ElementNames
           /\ _depth' = _depth + 1
           /\ raised' = None
           /\ forwarded'[1].outcome = "ok" =>
                  _state' = STREAM_HEADER_PROCESSED /\ _stored_exception' = None
    /\ (_state = STREAM_HEADER_PROCESSED /\ _depth > 1 /\ op' = "endElementNS") =>
           /\ Len(forwarded') = 1
           /\ forwarded'[1].parser = _driver
           /\ forwarded'[1].event = "endElementNS"
           /\ forwarded'[1].name \in ElementNames
           /\ _depth' = _depth - 1
           /\ forwarded'[1].outcome = "ok" =>
                  /\ _state' = STREAM_HEADER_PROCESSED
                  /\ _stored_exception' = None
                  /\ raised' = None
    /\ (_state = STREAM_HEADER_PROCESSED /\ _depth = 1 /\ op' = "endElementNS") =>
           /\ _depth' = 0
           /\ forwarded' = << >>
           /\ raised' = None => _state' = STREAM_FOOTER_PROCESSED
    /\ (_state = STREAM_FOOTER_PROCESSED /\ op' = "endDocument") =>
           raised' = None /\ _state' = CLEAN

C3_Step ==
    /\ OnExceptionFired =>
           /\ _state' = STREAM_HEADER_PROCESSED
           /\ _depth' = 1
           /\ _stored_exception' = None
           /\ undelivered' = 0
           /\ recovery' = "reported"
    \* whatever recovery is: with or without a fault delivered before
    /\ RoutesNormally

\* C3: once a fault has been reported through on_exception the handler is in
\* STREAM_HEADER_PROCESSED at depth 1 with nothing stored, and the next
\* begin/end pair of a child of the root is forwarded to the consumer as it
\* is when no fault has occurred; the root can then be closed and
\* endDocument succeeds.
C3_RecoversAfterReport == [][C3_Step]_vars

\* After a reported fault a later child was closed through the consumer and
\* the root was closed.
C3_Witness ==
    /\ recovery = "sibling"
    /\ _state = STREAM_FOOTER_PROCESSED
    /\ on_exception # None
    /\ _depth = 0

\* This step's startElementNS or endElementNS raised a consumer error.
ReRaised == op' \in {"startElementNS", "endElementNS"} /\ raised' \in ConsumerErrors

\* The re-raise of a stored error by the close that brings the depth to 1.
C4_DeferredReRaise ==
    (_state = EXCEPTION /\ on_exception = None /\ ClosesToDepthOne) =>
        /\ raised' = _stored_exception
        /\ _state' = STREAM_HEADER_PROCESSED
        /\ _stored_exception' = None
        /\ fired' = << >>

C4_Original_Step ==
    /\ ReRaised =>
           /\ ClosesToDepthOne
           /\ on_exception = None
           /\ _state' = STREAM_HEADER_PROCESSED
           /\ _stored_exception' = None
           /\ _state = EXCEPTION
           /\ raised' = _stored_exception
    /\ C4_DeferredReRaise
    \* not from the call in which the consumer raised
    /\ (ConsumerRaised /\ on_exception = None) => raised' = None

\* C4 as stated: with no on_exception registered the captured error is
\* re-raised from the endElementNS call at which the depth returns to 1, never
\* from the call in which the consumer raised, the state being back at
\* STREAM_HEADER_PROCESSED and the stored error cleared before the re-raise.
C4_Original == [][C4_Original_Step]_vars

C4_Step ==
    /\ ReRaised =>
           /\ ClosesToDepthOne
           /\ on_exception = None
           /\ _state' = STREAM_HEADER_PROCESSED
           /\ _stored_exception' = None
           /\ fired' = << >>
           /\ \/ _state = EXCEPTION /\ raised' = _stored_exception
              \/ /\ _state # EXCEPTION
                 /\ ConsumerRaised
                 /\ forwarded'[1].event = "endElementNS"
                 /\ raised' = forwarded'[1].outcome
    /\ C4_DeferredReRaise
    /\ (ConsumerRaised /\ ~ClosesToDepthOne) => raised' = None
    /\ (ConsumerRaised /\ forwarded'[1].event = "startElementNS") => raised' = None
    /\ (ConsumerRaised /\ ClosesToDepthOne /\ on_exception = None) =>
           raised' = forwarded'[1].outcome

\* C4 (amended): with no on_exception registered the captured error is
\* re-raised from the endElementNS call at which the depth returns to 1, with
\* the state back at STREAM_HEADER_PROCESSED and the stored error cleared;
\* that call is later than the one in which the consumer raised, except when
\* the consumer's end-element callback raises in the very call that brings
\* the depth to 1, which then re-raises the error itself.
C4_ReRaisedAtDepthOne == [][C4_Step]_vars

\* A stored error was re-raised by a later close, no callback registered.
C4_Witness ==
    /\ op = "endElementNS"
    /\ raised = "exc1"
    /\ forwarded = << >>
    /\ fired = << >>
    /\ on_exception = None
    /\ _state = STREAM_HEADER_PROCESSED
    /\ _stored_exception = None
    /\ _depth = 1

\* The error stored before this step, or raised by the consumer in it, was
\* delivered by this step: handed to on_exception, or re-raised without one.
DeliveredNow(exc) ==
    /\ _state' = STREAM_HEADER_PROCESSED
    /\ _stored_exception' = None
    /\ IF on_exception # None
       THEN fired' = <<Fire("on_exception", exc)>>
       ELSE fired' = << >> /\ raised' = exc

C5_Step ==
    /\ (op' = "endElementNS" /\ _state = STREAM_HEADER_PROCESSED /\ _depth > 1) =>
           /\ _depth' = _depth - 1
           /\ Len(forwarded') = 1
           /\ forwarded'[1].parser = _driver
           /\ forwarded'[1].event = "endElementNS"
           /\ forwarded'[1].outcome = "ok" =>
                  /\ _state' = STREAM_HEADER_PROCESSED
                  /\ _stored_exception' = _stored_exception
                  /\ raised' = None /\ fired' = << >>
           /\ (forwarded'[1].outcome # "ok" /\ _depth' = 1) =>
                  DeliveredNow(forwarded'[1].outcome)
           /\ (forwarded'[1].outcome # "ok" /\ _depth' # 1) =>
                  /\ _state' = EXCEPTION
                  /\ _stored_exception' = forwarded'[1].outcome
                  /\ raised' = None /\ fired' = << >>
    \* deferred: the fault stays stored until a close brings the depth to 1
    /\ (_state = EXCEPTION /\ ~ClosesToDepthOne) =>
           /\ _state' = EXCEPTION
           /\ _stored_exception' = _stored_exception
           /\ raised' \notin ConsumerErrors /\ fired' = << >>
    /\ (_state = EXCEPTION /\ ClosesToDepthOne) => DeliveredNow(_stored_exception)

\* C5: endElementNS in state STREAM_HEADER_PROCESSED with depth > 1 decrements
\* the depth and calls the consumer's end-element callback; an error it
\* raises is captured and reported within the same call if the new depth is
\* 1; otherwise the state stays EXCEPTION and the report waits for a later
\* endElementNS that brings the depth to 1.
C5_EndFaultReportedOrDeferred == [][C5_Step]_vars

\* An end-element error of a grandchild was captured and left stored.
C5_Witness ==
    /\ op = "endElementNS"
    /\ forwarded # << >>
    /\ forwarded[1].outcome = "exc2"
    /\ _state = EXCEPTION
    /\ _stored_exception = "exc2"
    /\ _depth = 2
    /\ raised = None

\* This step delivered a fault: to on_exception, or by re-raising it.
Delivers == OnExceptionFired \/ ReRaised

\* fault_depth counts the element whose callback raised, so d - 1 is the
\* depth once that element is closed.
C6_Original_Step ==
    /\ Delivers => _depth' = fault_depth' - 1
    /\ (_state = EXCEPTION /\ op' = "endElementNS" /\ _depth' = fault_depth - 1) =>
           Delivers

\* C6 as stated: a fault captured at depth d is reported precisely when the
\* depth returns to d - 1, never earlier and never later, for every depth d
\* at which a consumer callback can raise.
C6_Original == [][C6_Original_Step]_vars

C6_Step ==
    /\ Delivers =>
           /\ ClosesToDepthOne
           /\ _stored_exception' = None
           /\ _state = EXCEPTION => fault_depth' = fault_depth
    /\ (_state = EXCEPTION /\ ClosesToDepthOne) => Delivers
    /\ (_state = EXCEPTION /\ ~ClosesToDepthOne) =>
           /\ ~Delivers
           /\ _state' = EXCEPTION
           /\ fault_depth' = fault_depth
    /\ (ConsumerRaised /\ ~ClosesToDepthOne) => ~Delivers /\ _state' = EXCEPTION
    /\ (ConsumerRaised /\ ClosesToDepthOne) => Delivers

\* C6 (amended): a fault captured at any depth d is reported precisely when
\* an endElementNS brings the depth back to 1, never earlier and never
\* later; that is depth d - 1 only for a fault of a direct child of the root.
C6_ReportedAtDepthOneWhateverDepth == [][C6_Step]_vars

\* A fault of an element at depth 3 was delivered at depth 1, not at depth 2.
C6_Witness ==
    /\ op = "endElementNS"
    /\ fault_depth = 3
    /\ _depth = 1
    /\ raised = "exc2"
    /\ _stored_exception = None
    /\ _state = STREAM_HEADER_PROCESSED

C7_Step ==
    /\ op' = "startDocument" =>
           IF _state = CLEAN
           THEN /\ raised' = None
                /\ _state' = STARTED
                /\ _depth' = 0
           ELSE /\ raised' = RuntimeError
                /\ UNCHANGED <<_state, _depth>>
    /\ (_state # CLEAN /\ _state' = CLEAN) =>
           /\ op' = "endDocument"
           /\ raised' = None
           /\ _state = STREAM_FOOTER_PROCESSED

\* C7: startDocument succeeds only in CLEAN, moving to STARTED with depth 0;
\* in every other state it raises RuntimeError and leaves state and depth
\* alone; the state returns to CLEAN only by a successful endDocument taken
\* in STREAM_FOOTER_PROCESSED, after which startDocument succeeds again.
C7_StartDocumentOnlyWhenClean == [][C7_Step]_vars

\* A second document was started after a first one was read to its end.
C7_Witness ==
    /\ op = "startDocument"
    /\ raised = None
    /\ _state = STARTED
    /\ _depth = 0
    /\ remote_version # Nothing

C8_Step ==
    op' = "endDocument" =>
        IF _state = STREAM_FOOTER_PROCESSED
        THEN /\ raised' = None
             /\ _state' = CLEAN
             /\ _driver' = None
        ELSE /\ raised' = RuntimeError
             /\ UNCHANGED <<_state, _driver>>

\* C8: endDocument succeeds only in STREAM_FOOTER_PROCESSED, moving to CLEAN
\* and dropping the driver; in CLEAN, STARTED, STREAM_HEADER_PROCESSED and
\* EXCEPTION it raises RuntimeError and leaves the state alone.
C8_EndDocumentOnlyAfterFooter == [][C8_Step]_vars

\* A document that was read to its footer was ended.
C8_Witness ==
    /\ op = "endDocument"
    /\ raised = None
    /\ _state = CLEAN
    /\ _driver = None
    /\ remote_version # Nothing

MidDocument == {STARTED, STREAM_HEADER_PROCESSED, EXCEPTION}

C9_Step ==
    /\ (op' = "stanza_parser=" /\ _state \in MidDocument) =>
           /\ raised' = RuntimeError
           /\ UNCHANGED <<_stanza_parser, _driver, parser_lang, _state>>
    /\ _driver' # _driver =>
           /\ raised' = None
           /\ \/ op' = "startDocument" /\ _driver' = _stanza_parser
              \/ op' = "endDocument" /\ _driver' = None
    /\ \A i \in DOMAIN forwarded' : forwarded'[i].parser = _driver

C9_Inv == _state \in MidDocument => _driver = _stanza_parser

\* C9: the stanza_parser setter called in STARTED, STREAM_HEADER_PROCESSED
\* or EXCEPTION raises RuntimeError and leaves the configured parser alone;
\* the driver is bound at startDocument and unbound at endDocument only, and
\* every forwarded event goes to the parser bound at startDocument.
C9_ParserFixedMidDocument == [][C9_Step]_vars /\ []C9_Inv

\* The setter was refused while a fault was pending on a non-default parser.
C9_Witness ==
    /\ op = "stanza_parser="
    /\ raised = RuntimeError
    /\ _state = EXCEPTION
    /\ _driver = "p1"
    /\ _stanza_parser = "p1"

C10_Original_Step ==
    (op' = "stanza_parser=" /\ _state \in {CLEAN, STREAM_FOOTER_PROCESSED}) =>
        /\ raised' = None
        /\ parser_lang' = [parser_lang EXCEPT ![_stanza_parser'] = remote_lang]

\* C10 as stated: the setter is accepted in CLEAN and also in
\* STREAM_FOOTER_PROCESSED; in both it installs the parser and hands it the
\* known language.
C10_Original == [][C10_Original_Step]_vars

C10_Step ==
    /\ (op' = "stanza_parser=" /\ _state = CLEAN) =>
           /\ raised' = None
           /\ _stanza_parser' \in Parsers
           /\ parser_lang' =
                  [parser_lang EXCEPT ![_stanza_parser'] = remote_lang]
           /\ UNCHANGED <<_state, _driver, remote_lang>>
    /\ (op' = "stanza_parser=" /\ _state = STREAM_FOOTER_PROCESSED) =>
           /\ raised' = RuntimeError
           /\ UNCHANGED <<_stanza_parser, parser_lang, _state, _driver>>

\* C10 (amended): the setter is accepted in CLEAN only, where it installs
\* the parser and hands it the known language; in STREAM_FOOTER_PROCESSED it
\* raises RuntimeError and leaves the configured parser alone.
C10_SetterOnlyWhenClean == [][C10_Step]_vars

\* Between two documents the parser was replaced, and both the old and the
\* new one hold the language of the stream read before.
C10_Witness ==
    /\ op = "stanza_parser="
    /\ raised = None
    /\ _state = CLEAN
    /\ _stanza_parser = "p1"
    /\ remote_lang # Nothing
    /\ parser_lang["p1"] = remote_lang
    /\ parser_lang["p0"] = remote_lang

(***************************************************************************)
(* The stream header and footer.                                           *)
(***************************************************************************)
\* This step is a call of startElementNS made in STARTED.
InStarted == _state = STARTED /\ op' = "startElementNS"
\* This step is the call startElementNS(STREAM_TAG, a).
HeaderCall(a) == startElementNS(STREAM_TAG, a)

\* What the attributes of `a` stand for, read off the attribute texts.
AddressOf(attr) == IF attr = Nothing THEN Nothing ELSE JID_fromstr(attr[1])
LanguageOf(attr) ==
    IF attr = Nothing THEN Nothing ELSE LanguageTag_fromstr(attr[1])
\* A text of the form major.minor with integer components.
MajorMinor(text) ==
    /\ Len(Split(text)) = 2
    /\ \A i \in 1..2 : IntParses(Split(text)[i])
PairOf(text) == <<int(Split(text)[1]), int(Split(text)[2])>>

\* A header every attribute of which is as the protocol wants it.
ValidHeader(a) ==
    /\ a.to # Nothing /\ AddressOf(a.to) # Nothing
    /\ a.from = Nothing \/ AddressOf(a.from) # Nothing
    /\ a.version = Nothing \/ MajorMinor(a.version[1])
    /\ a.lang = Nothing \/ LanguageOf(a.lang) # Nothing

ValidHeaders == {a \in Attributes : ValidHeader(a)}

\* The client data a valid header `a` gives, in the order of `remote`.
DataOf(a) ==
    << IF a.version = Nothing THEN <<0, 9>> ELSE PairOf(a.version[1]),
       AddressOf(a.from), AddressOf(a.to), LanguageOf(a.lang) >>

\* The data is populated, the language pushed, and on_stream_header, if
\* registered, was invoked once and saw both.
HeaderPopulated(a) ==
    /\ remote' = DataOf(a)
    /\ parser_lang'[_stanza_parser] = LanguageOf(a.lang)
    /\ fired' = IF on_stream_header = None THEN << >>
                ELSE <<FireSeeing("on_stream_header", None, DataOf(a),
                         [parser_lang EXCEPT
                              ![_stanza_parser] = LanguageOf(a.lang)])>>
    /\ forwarded' = << >>

C11_Original_Step ==
    InStarted => \A a \in ValidHeaders :
        HeaderCall(a) =>
            /\ HeaderPopulated(a)
            /\ _state' = STREAM_HEADER_PROCESSED
            /\ _depth' = 1

\* C11: startElementNS in STARTED with the stream root's name and a valid
\* attribute set populates the four client data fields, pushes the language
\* to the parser, invokes on_stream_header (if registered) once with the
\* data already populated, then moves to STREAM_HEADER_PROCESSED at depth 1,
\* and forwards nothing to the driver.
C11_Original == [][C11_Original_Step]_vars

C11_Returning_Step ==
    InStarted => \A a \in ValidHeaders :
        HeaderCall(a) =>
            /\ HeaderPopulated(a)
            /\ IF raised' = None
               THEN _state' = STREAM_HEADER_PROCESSED /\ _depth' = 1
               ELSE /\ raised' = CallbackError
                    /\ on_stream_header # None
                    /\ _state' = STARTED /\ _depth' = 0

\* C11, the part that holds: all of the above up to the callback; the state
\* and the depth change only if on_stream_header returns, and are left at
\* STARTED and 0 if it raises.
C11_HeaderUpToCallback == [][C11_Returning_Step]_vars

\* on_stream_header raised on a valid header: the data is populated and the
\* handler still waits for the header.
C11_Witness ==
    /\ op = "startElementNS"
    /\ raised = CallbackError
    /\ _state = STARTED
    /\ remote_to # Nothing
    /\ remote_version = <<1, 0>>
    /\ Len(fired) = 1

\* The "from" attribute of `a` is absent or parses.
FromParses(a) == a.from = Nothing \/ AddressOf(a.from) # Nothing

\* A header without "from" leaves remote_from unset and, everything else
\* being valid, fails only if on_stream_header does.
MissingFromIsFine(a) ==
    a.from = Nothing =>
        /\ remote_from' = Nothing
        /\ ValidHeader(a) =>
               /\ raised' \in {None, CallbackError}
               /\ raised' = None => _state' = STREAM_HEADER_PROCESSED

C12_Original_Step ==
    InStarted => \A a \in Attributes :
        HeaderCall(a) =>
            /\ a.to = Nothing => raised' = UNDEFINED_CONDITION
            /\ MissingFromIsFine(a)

\* C12: for every header attribute set, a missing "to" makes the header
\* call fail with UNDEFINED_CONDITION, while a missing "from" never causes a
\* failure and leaves remote_from unset.
C12_Original == [][C12_Original_Step]_vars

C12_FromParses_Step ==
    InStarted => \A a \in Attributes :
        HeaderCall(a) =>
            /\ a.to = Nothing =>
                   raised' = IF FromParses(a) THEN UNDEFINED_CONDITION
                             ELSE ValueError
            /\ MissingFromIsFine(a)

\* C12, the part that holds: a missing "to" fails with UNDEFINED_CONDITION
\* when "from" is absent or parses, and with the ValueError of JID.fromstr
\* when "from" is present and does not parse.
C12_MissingToAfterFrom == [][C12_FromParses_Step]_vars

C13_Original_Step ==
    InStarted => \A a \in Attributes :
        (/\ HeaderCall(a)
         /\ FromParses(a)
         /\ a.to = Nothing \/ AddressOf(a.to) = Nothing) =>
            raised' = UNDEFINED_CONDITION

\* C13: a header whose "to" is present but does not parse as an address
\* fails with UNDEFINED_CONDITION, the error of a missing "to".
C13_Original == [][C13_Original_Step]_vars

C13_ValueError_Step ==
    InStarted => \A a \in Attributes :
        (HeaderCall(a) /\ FromParses(a)) =>
            /\ a.to = Nothing => raised' = UNDEFINED_CONDITION
            /\ (a.to # Nothing /\ AddressOf(a.to) = Nothing) =>
                   /\ raised' = ValueError
                   /\ remote_from' = AddressOf(a.from)
                   /\ UNCHANGED <<_state, _depth, remote_to>>

\* C13, what the code does: an unparsable "to" ends the call with the
\* ValueError of JID.fromstr, after remote_from was assigned.
C13_UnparsableToRaisesValueError == [][C13_ValueError_Step]_vars

\* In a first document "from" was read and "to" did not parse.
C13_Witness ==
    /\ op = "startElementNS"
    /\ raised = ValueError
    /\ _state = STARTED
    /\ remote_from # Nothing
    /\ remote_to = Nothing
    /\ remote_version = Nothing

\* This step is a header call that was given `a` and processed it.
HeaderProcessed(a) == HeaderCall(a) /\ _state' = STREAM_HEADER_PROCESSED

\* The text the version is parsed from.
VersionText(a) ==
    IF a.version = Nothing THEN DefaultVersionText ELSE a.version[1]

C14_Original_Step ==
    InStarted => \A a \in Attributes :
        HeaderProcessed(a) =>
            /\ Len(remote_version') = 2
            /\ remote_version' = IF a.version = Nothing THEN <<0, 9>>
                                 ELSE PairOf(a.version[1])

\* C14: after a successfully processed header remote_version is a pair
\* (major, minor) of integers: (0, 9) when the version attribute is absent,
\* the pair parsed from its text when present.
C14_Original == [][C14_Original_Step]_vars

C14_Tuple_Step ==
    InStarted => \A a \in Attributes :
        HeaderProcessed(a) =>
            /\ a.version = Nothing => remote_version' = <<0, 9>>
            /\ MajorMinor(VersionText(a)) =>
                   remote_version' = PairOf(VersionText(a))
            /\ Len(remote_version') = Len(Split(VersionText(a)))
            /\ \A i \in 1..Len(remote_version') :
                   /\ IntParses(Split(VersionText(a))[i])
                   /\ remote_version'[i] = int(Split(VersionText(a))[i])

\* C14, what the code does: remote_version is the tuple of the integers
\* between the dots, (0, 9) by default; it is a pair only if the text has
\* two components.
C14_VersionIsTupleOfParts == [][C14_Tuple_Step]_vars

\* A header with version "1" was processed: remote_version is (1,).
C14_Witness ==
    /\ op = "startElementNS"
    /\ _state = STREAM_HEADER_PROCESSED
    /\ _depth = 1
    /\ remote_version = <<1>>

\* The header of `a` gets as far as the version.
ReachesVersion(a) ==
    FromParses(a) /\ a.to # Nothing /\ AddressOf(a.to) # Nothing

C15_Original_Step ==
    InStarted => \A a \in Attributes :
        (HeaderCall(a) /\ ReachesVersion(a)
            /\ a.version # Nothing /\ ~MajorMinor(a.version[1])) =>
            /\ raised' = UNSUPPORTED_VERSION
            /\ UNCHANGED <<_state, _depth>>

\* C15: a header whose version attribute is present but not of the form
\* major.minor with integer components always fails with
\* UNSUPPORTED_VERSION, raised by the header call itself.
C15_Original == [][C15_Original_Step]_vars

C15_NonInteger_Step ==
    /\ InStarted => \A a \in Attributes :
           (HeaderCall(a) /\ ReachesVersion(a)) =>
               (raised' = UNSUPPORTED_VERSION) =
                   (\E i \in 1..Len(Split(VersionText(a))) :
                        ~IntParses(Split(VersionText(a))[i]))
    /\ raised' = UNSUPPORTED_VERSION => InStarted /\ UNCHANGED <<_state, _depth>>

\* C15, what the code does: the header call fails with UNSUPPORTED_VERSION
\* exactly when some component of the version is not an integer, whatever
\* the number of components; no other call raises it.
C15_UnsupportedIffNonInteger == [][C15_NonInteger_Step]_vars

\* A stream whose header had version "1" was read to its footer.
C15_Witness ==
    /\ _state = STREAM_FOOTER_PROCESSED
    /\ remote_version = <<1>>
    /\ raised = None

C16_Step ==
    /\ InStarted =>
           /\ \A name \in ElementNames \ {STREAM_TAG}, a \in Attributes :
                  startElementNS(name, a) =>
                      /\ raised' = INVALID_NAMESPACE
                      /\ fired' = << >> /\ forwarded' = << >>
                      /\ UNCHANGED <<handler, parsers, remote>>
           /\ raised' # INVALID_NAMESPACE =>
                  \E a \in Attributes : startElementNS(STREAM_TAG, a)
    /\ raised' = INVALID_NAMESPACE => InStarted
    /\ (_state = STARTED /\ _state' # STARTED) => op' = "startElementNS"

\* C16: in STARTED, startElementNS with a name that differs from the stream
\* root's in namespace or in local name raises INVALID_NAMESPACE whatever
\* the attributes and changes nothing; only a call with the root's name
\* ends otherwise, and STARTED is left only by startElementNS.
C16_FirstElementMustBeRoot == [][C16_Step]_vars

\* After a header was refused for its name the handler still waits for it.
C16_Witness ==
    /\ op = "startElementNS"
    /\ raised = INVALID_NAMESPACE
    /\ _state = STARTED
    /\ _depth = 0
    /\ remote = <<Nothing, Nothing, Nothing, Nothing>>

\* This step is endElementNS closing the root: STREAM_HEADER_PROCESSED at
\* depth 1.
ClosesRoot ==
    _state = STREAM_HEADER_PROCESSED /\ _depth = 1 /\ op' = "endElementNS"

\* The footer callback, if registered, was invoked once; nothing forwarded.
FooterFired ==
    /\ _depth' = 0
    /\ forwarded' = << >>
    /\ fired' = IF on_stream_footer = None THEN << >>
                ELSE <<Fire("on_stream_footer", None)>>

C17_Original_Step ==
    ClosesRoot => FooterFired /\ _state' = STREAM_FOOTER_PROCESSED

\* C17: endElementNS in STREAM_HEADER_PROCESSED at depth 1 takes the depth
\* to 0, invokes on_stream_footer (if registered) once, moves to
\* STREAM_FOOTER_PROCESSED and forwards nothing to the driver.
C17_Original == [][C17_Original_Step]_vars

C17_Returning_Step ==
    ClosesRoot =>
        /\ FooterFired
        /\ IF raised' = None
           THEN _state' = STREAM_FOOTER_PROCESSED
           ELSE /\ raised' = CallbackError
                /\ on_stream_footer # None
                /\ _state' = STREAM_HEADER_PROCESSED

\* C17, the part that holds: the state changes only if on_stream_footer
\* returns; if it raises the handler stays in STREAM_HEADER_PROCESSED at
\* depth 0.
C17_FooterUpToCallback == [][C17_Returning_Step]_vars

\* on_stream_footer raised: the root is closed and the handler still takes
\* itself to be inside it.
C17_Witness ==
    /\ op = "endElementNS"
    /\ raised = CallbackError
    /\ _state = STREAM_HEADER_PROCESSED
    /\ _depth = 0
    /\ fired = <<Fire("on_stream_footer", None)>>

C18_Step ==
    /\ op' = "characters" =>
           /\ UNCHANGED <<handler, parsers, remote>>
           /\ fired' = << >>
           /\ IF _state = STREAM_HEADER_PROCESSED
              THEN \E outcome \in ConsumerOutcomes :
                       /\ forwarded' =
                              <<Call(_driver, "characters", Nothing, outcome)>>
                       /\ raised' = IF outcome = "ok" THEN None ELSE outcome
              ELSE /\ forwarded' = << >>
                   /\ raised' = IF _state = EXCEPTION THEN None
                                ELSE RuntimeError
    /\ \A i \in DOMAIN forwarded' :
           forwarded'[i].event = "characters" =>
               _state = STREAM_HEADER_PROCESSED /\ op' = "characters"

\* C18: characters is forwarded to the driver only in
\* STREAM_HEADER_PROCESSED; in EXCEPTION it calls nothing and changes
\* neither state nor depth; in CLEAN, STARTED and STREAM_FOOTER_PROCESSED it
\* raises RuntimeError.
C18_CharactersByState == [][C18_Step]_vars

\* Text arrived while an error was stored and was dropped.
C18_Witness ==
    /\ op = "characters"
    /\ _state = EXCEPTION
    /\ raised = None
    /\ forwarded = << >>
    /\ _stored_exception # None

(***************************************************************************)
(* Client data and depth over whole runs.                                  *)
(***************************************************************************)
\* This step is the header transition STARTED -> STREAM_HEADER_PROCESSED.
HeaderTransition ==
    /\ _state = STARTED
    /\ _state' = STREAM_HEADER_PROCESSED
    /\ op' = "startElementNS"

C19_Original_Step == remote' # remote => HeaderTransition

\* C19: the client data (remote_from, remote_to, remote_version,
\* remote_lang) is written only by the successful header transition: no
\* field is written while the state remains STARTED, and no operation in
\* STREAM_HEADER_PROCESSED, EXCEPTION or STREAM_FOOTER_PROCESSED changes one.
C19_Original == [][C19_Original_Step]_vars

C19_InStarted_Step == remote' # remote => InStarted

\* C19, the part that holds: the client data changes only in a
\* startElementNS call made in STARTED, whether or not that call succeeds.
C19_WrittenByHeaderCallsOnly == [][C19_InStarted_Step]_vars

\* A header without "to" failed after remote_from was written.
C19_Witness ==
    /\ op = "startElementNS"
    /\ raised = UNDEFINED_CONDITION
    /\ _state = STARTED
    /\ remote_from # Nothing
    /\ remote_to = Nothing

\* C20: in every reachable state the depth, once a document was started, is
\* at least 0, and it is 0 in STREAM_FOOTER_PROCESSED.
C20_Original ==
    /\ _depth # NoDepth => _depth >= 0
    /\ _state = STREAM_FOOTER_PROCESSED => _depth = 0

C20_Footer_Step ==
    /\ (ClosesRoot /\ raised' = None) =>
           _state' = STREAM_FOOTER_PROCESSED /\ _depth' = 0
    /\ (_depth >= 0 /\ _depth' < 0 /\ _depth' # NoDepth) =>
           /\ op' = "endElementNS"
           /\ _depth = 0
           /\ _state \in {STREAM_HEADER_PROCESSED, EXCEPTION}
    /\ (_state = STREAM_HEADER_PROCESSED /\ _depth > 0 /\ _depth' = 0
            /\ _state' # STREAM_FOOTER_PROCESSED) =>
           raised' = CallbackError /\ on_stream_footer # None

\* C20, the part that holds: a close of the root whose callback returns
\* ends in STREAM_FOOTER_PROCESSED at depth 0; the depth goes below 0 only
\* by an endElementNS accepted at depth 0, and the handler is left open at
\* depth 0 only by on_stream_footer raising.
C20_DepthWhenFooterReturns == [][C20_Footer_Step]_vars

\* The root was closed once more than it was opened and the handler took
\* the second close for the footer.
C20_Witness ==
    /\ _state = STREAM_FOOTER_PROCESSED
    /\ _depth < 0
    /\ _depth # NoDepth
    /\ op = "endElementNS"
    /\ raised = None

(***************************************************************************)
(* The handler's states over whole runs.                                   *)
(***************************************************************************)
C21_Step ==
    (_state # CLEAN /\ _state' = CLEAN) =>
        /\ _state = STREAM_FOOTER_PROCESSED
        /\ op' = "endDocument"
        /\ raised' = None
        /\ fired' = << >>

\* C21: the state becomes CLEAN only by the successful endDocument taken in
\* STREAM_FOOTER_PROCESSED: no operation, error or callback outcome takes it
\* from STARTED, STREAM_HEADER_PROCESSED or EXCEPTION to CLEAN.
C21_CleanOnlyByEndDocument == [][C21_Step]_vars

\* A document in which on_exception was in use was ended.
C21_Witness ==
    /\ _state = CLEAN
    /\ op = "endDocument"
    /\ raised = None
    /\ on_exception # None
    /\ remote_to # Nothing

\* This step is a call made while an error is stored.
WhileStored(method) == _state = EXCEPTION /\ op' = method

\* The event is swallowed: nothing reaches the driver, the call returns and
\* the stored error stays.
Swallowed ==
    /\ forwarded' = << >>
    /\ fired' = << >>
    /\ raised' = None
    /\ UNCHANGED <<_state, _stored_exception>>

C28_Original_Step ==
    /\ _state = EXCEPTION => forwarded' = << >>
    /\ WhileStored("startElementNS") => _depth' = _depth + 1
    /\ WhileStored("characters") => UNCHANGED _depth
    /\ WhileStored("endElementNS") => _depth' = _depth - 1
    /\ (WhileStored("startElementNS") \/ WhileStored("characters")
           \/ WhileStored("endElementNS")) =>
           /\ raised' = None
           /\ ClosesToDepthOne \/ UNCHANGED _stored_exception

\* C28 as stated: while an error is stored the driver receives no event:
\* startElementNS only increments the depth, characters is dropped,
\* endElementNS only decrements the depth (reporting the error when the
\* depth reaches 1), and none of these calls fails or changes the stored
\* error.
C28_Original == [][C28_Original_Step]_vars

C28_Step ==
    /\ _state = EXCEPTION => forwarded' = << >>
    /\ WhileStored("startElementNS") => Swallowed /\ _depth' = _depth + 1
    /\ WhileStored("characters") => Swallowed /\ UNCHANGED _depth
    /\ WhileStored("endElementNS") =>
           /\ _depth' = _depth - 1
           /\ IF _depth' = 1
              THEN /\ _state' = STREAM_HEADER_PROCESSED
                   /\ _stored_exception' = None
                   /\ IF on_exception # None
                      THEN /\ fired' = <<Fire("on_exception",
                                              _stored_exception)>>
                           /\ raised' \in {None, CallbackError}
                      ELSE /\ fired' = << >>
                           /\ raised' = _stored_exception
              ELSE Swallowed

\* C28 (amended): while an error is stored the driver receives no event;
\* startElementNS, characters and every endElementNS that does not bring the
\* depth to 1 return normally and leave the stored error; the endElementNS
\* that brings the depth to 1 reports: it clears the stored error and, with
\* no on_exception registered, raises it to its caller.
C28_SwallowedWhileStored == [][C28_Step]_vars

\* An element was opened at the deepest level while an error was stored.
C28_Witness ==
    /\ op = "startElementNS"
    /\ _state = EXCEPTION
    /\ _depth = MaxDepth
    /\ forwarded = << >>
    /\ raised = None
    /\ fault_depth < MaxDepth

\* C29: between operations, when no callback raises, state and depth are
\* coupled: STARTED has depth 0; STREAM_HEADER_PROCESSED has depth >= 1 and
\* no stored error; EXCEPTION has depth >= 2 and a stored error;
\* STREAM_FOOTER_PROCESSED has depth 0.
C29_StateDepthCoupled ==
    /\ _state = STARTED => _depth = 0
    /\ _state = STREAM_HEADER_PROCESSED =>
           _depth >= 1 /\ _stored_exception = None
    /\ _state = EXCEPTION =>
           _depth >= 2 /\ _stored_exception \in ConsumerErrors
    /\ _state = STREAM_FOOTER_PROCESSED => _depth = 0

\* An error is stored right under a direct child of the root's level.
C29_Witness ==
    /\ _state = EXCEPTION
    /\ _depth = 2
    /\ _stored_exception \in ConsumerErrors
    /\ op = "endElementNS"

\* The error this step delivered.
DeliveredError == IF OnExceptionFired THEN fired'[1].arg ELSE raised'

C30_Step ==
    /\ ConsumerRaised =>
           /\ _state = STREAM_HEADER_PROCESSED
           /\ _stored_exception = None
           /\ IF ClosesToDepthOne
              THEN Delivers /\ DeliveredError = forwarded'[1].outcome
              ELSE ~Delivers /\ _stored_exception' = forwarded'[1].outcome
    /\ _stored_exception # None =>
           \/ _stored_exception' = _stored_exception /\ ~Delivers
           \/ /\ _stored_exception' = None
              /\ ClosesToDepthOne
              /\ Delivers
              /\ DeliveredError = _stored_exception
    /\ Delivers =>
           /\ ClosesToDepthOne
           /\ _stored_exception' = None
           /\ Len(fired') <= 1
           /\ ~(OnExceptionFired /\ ReRaised)

C30_Inv ==
    /\ undelivered \in {0, 1}
    /\ undelivered = 1 <=> _stored_exception # None

\* C30: within one direct child of the root at most one error is captured
\* and at most one report is made: an error is captured only when none is
\* stored, the stored error is never overwritten, what is delivered to
\* on_exception or re-raised is that error, delivered once by the close
\* that ends the child, and nothing is stored after the report.
C30_OneFaultPerChild == [][C30_Step]_vars /\ []C30_Inv

\* The error of a direct child's start was re-raised when the child closed,
\* after its own children were swallowed.
C30_Witness ==
    /\ op = "endElementNS"
    /\ raised = "exc1"
    /\ fault_depth = 2
    /\ _depth = 1
    /\ _stored_exception = None
    /\ undelivered = 0
    /\ on_exception = None

(***************************************************************************)
(* Properties of the writer.                                               *)
(***************************************************************************)
\* A close() or abort() on a writer that was closed, or an abort() on one
\* that was aborted.
RepeatedTeardown ==
    \/ (close \/ abort) /\ writer_state = Closed
    \/ abort /\ writer_state = Aborted

\* C22: once a started writer was closed, every further close() and every
\* abort() writes nothing, and so does every abort() after the first
\* abort(): the sink and what was flushed stay as they were, and the sink
\* never holds more than one closing tag.
C22_TeardownIdempotent ==
    /\ [][RepeatedTeardown => sink' = sink /\ flushed' = flushed]_vars
    /\ [](Count("root_close") <= 1)

\* abort() was called on a closed writer that had sent an object.
C22_Witness ==
    /\ writer_state = Closed
    /\ op = "abort"
    /\ Count("object") > 0
    /\ sink[Len(sink)] = RootClose
    /\ Count("root_close") = 1

\* The sink holds stream headers and sent objects only.
HeaderAndObjectsOnly ==
    \A i \in DOMAIN sink : sink[i].kind \in {"preamble", "root_open", "object"}

\* C23: abort() on an open writer writes nothing and makes it Aborted; an
\* aborted writer stays aborted and its sink stays what it was at the
\* abort, whatever close() and abort() calls follow: the headers and the
\* objects sent, never a closing tag.
C23_AbortedNeverCloses ==
    /\ [][abort /\ writer_state = Open =>
              sink' = sink /\ writer_state' = Aborted]_vars
    /\ [][writer_state = Aborted =>
              sink' = sink /\ writer_state' = Aborted]_vars
    /\ [](writer_state = Aborted => HeaderAndObjectsOnly)

\* close() was called on an aborted writer that had sent an object.
C23_Witness ==
    /\ writer_state = Aborted
    /\ op = "close"
    /\ Count("object") > 0
    /\ Count("root_close") = 0
    /\ sink[Len(sink)].kind = "object"

\* What a step appended to the sink.
Written == SubSeq(sink', Len(sink) + 1, Len(sink'))
\* The names of the attributes of an open tag, in the order written.
NamesOf(token) == [i \in DOMAIN token.attrs |-> token.attrs[i][1]]
\* The value each attribute of the stream header must carry.
ValueOf(name) ==
    CASE name = "id" -> TEST_ID [] name = "from" -> TEST_FROM
      [] name = "version" -> "1.0" [] name = "to" -> _to
WithTo(names) == IF _to # None THEN names ELSE << >>
\* start() wrote the preamble and then the open tag of the stream root with
\* the configured declarations and the attributes `names`, each with its
\* value, and flushed all of it.
StartWrote(names) ==
    /\ Len(Written) = 2
    /\ Written[1] = Preamble
    /\ Written[2].kind = "root_open"
    /\ Written[2].decls = _nsmap_to_use
    /\ <<"stream", STREAM_NS>> \in Written[2].decls
    /\ NamesOf(Written[2]) = names
    /\ \A i \in DOMAIN Written[2].attrs :
           Written[2].attrs[i][2] = ValueOf(Written[2].attrs[i][1])
    /\ flushed' = Len(sink')

\* As C24 is worded: the attributes are always id, from, version and then
\* to.
C24_Original ==
    [][start => StartWrote(<<"id", "from", "version">> \o WithTo(<<"to">>))]_vars

\* C24: start() writes the preamble and then the open tag of the stream
\* root, its namespace declarations before its attributes, to present iff
\* a peer address was configured, and flushes; the attributes are id, from,
\* version, to in that order on a writer built without sorted_attributes
\* and from, id, to, version on one built with it.
C24_HeaderInConfiguredOrder ==
    [][start =>
         StartWrote(IF _sorted_attributes
                    THEN <<"from", "id">> \o WithTo(<<"to">>) \o <<"version">>
                    ELSE <<"id", "from", "version">> \o WithTo(<<"to">>))]_vars

\* A writer built with a peer address and sorted_attributes was started.
C24_Witness ==
    /\ op = "start"
    /\ _sorted_attributes
    /\ _to = TEST_TO
    /\ Len(sink) = 2
    /\ NamesOf(sink[2]) = <<"from", "id", "to", "version">>
    /\ flushed = 2

\* A send() of an object that cannot be serialised.
FailedSend == \E obj \in Objects : send(obj) /\ ~Serialisable(obj)

\* Every token of the sink is whole, and every object in it is one that
\* can be serialised.
WholeTokensOnly ==
    \A i \in DOMAIN sink :
        /\ sink[i].kind \in {"preamble", "root_open", "object", "root_close"}
        /\ sink[i].kind = "object" => Serialisable(sink[i].obj[1])

\* C25: a send() whose object cannot be serialised raises to its caller and
\* changes nothing of the writer: the sink, what was flushed and the state
\* (Open) are as before the call, so that the calls after it write what
\* they would have written without it; no part of such an object is ever
\* in the sink.
C25_FailedSendWritesNothing ==
    /\ [][FailedSend =>
              /\ raised' # None
              /\ writer_state' = Open
              /\ UNCHANGED writer]_vars
    /\ []WholeTokensOnly

\* A send() failed on a writer that had sent an object before.
C25_Witness ==
    /\ op = "send"
    /\ raised = ValueError
    /\ writer_state = Open
    /\ Count("object") = 1
    /\ sink[Len(sink)].kind = "object"

\* A start() on a writer that was started before.
SecondStart == start /\ writer_state # NotStarted

\* As C26 is worded: a second start() raises ProtocolViolation and writes
\* nothing.
C26_Original ==
    [][SecondStart => raised' = "ProtocolViolation" /\ sink' = sink]_vars

\* start() returned twice on one writer, and the sink holds two preambles
\* and two open tags of the stream root.
C26_Witness ==
    /\ op = "start"
    /\ raised = None
    /\ writer_state = Open
    /\ Count("preamble") = 2
    /\ Count("root_open") = 2

\* C27: a writer that was built and not yet started has written nothing:
\* in state NotStarted, and as long as no preamble was written, the sink is
\* empty and nothing was flushed.
C27_NothingBeforeStart ==
    (writer_state = NotStarted \/ Count("preamble") = 0) =>
        sink = << >> /\ flushed = 0

\* A writer built with a peer address, a default namespace and sorted
\* attributes, before start().
C27_Witness ==
    /\ writer_state = NotStarted
    /\ _to = TEST_TO
    /\ <<None, "jabber:client">> \in _nsmap_to_use
    /\ _sorted_attributes
    /\ sink = << >>

(***************************************************************************)
(* Properties of the handler, continued.                                   *)
(***************************************************************************)
\* What a header that is not accepted makes startElementNS raise: the
\* stream errors of a wrong name, a missing "to" and an unparsable version,
\* and the ValueError of an address or a language that does not parse.
ValidationErrors ==
    {INVALID_NAMESPACE, UNDEFINED_CONDITION, UNSUPPORTED_VERSION, ValueError}
\* This step is a startElementNS in STARTED that failed validation.
HeaderRefused == InStarted /\ raised' \in ValidationErrors
\* The last call was a startElementNS that failed validation.
AfterRefusedHeader ==
    /\ op = "startElementNS"
    /\ raised \in ValidationErrors
    /\ _state = STARTED

C31_Step ==
    /\ HeaderRefused =>
           /\ _state' = STARTED
           /\ _depth = 0 /\ _depth' = 0
           /\ fired' = << >>
           /\ forwarded' = << >>
    /\ (AfterRefusedHeader /\ op' = "startElementNS") =>
           /\ raised' # RuntimeError
           /\ forwarded' = << >>
           /\ \A name \in ElementNames \ {STREAM_TAG}, a \in Attributes :
                  startElementNS(name, a) => raised' = INVALID_NAMESPACE
           /\ \A a \in Attributes :
                  HeaderCall(a) =>
                      /\ raised' \in ValidationErrors \cup {None, CallbackError}
                      /\ ValidHeader(a) => raised' \notin ValidationErrors
                      /\ raised' = None =>
                             /\ _state' = STREAM_HEADER_PROCESSED
                             /\ _depth' = 1

\* C31: a startElementNS in STARTED that fails validation (wrong name,
\* missing "to", unparsable version, address or language) leaves the
\* handler in STARTED at depth 0, invokes no owner callback and makes no
\* call into the driver; the startElementNS that follows is validated as a
\* stream header again: it is never refused with RuntimeError nor
\* forwarded, a wrong name raises INVALID_NAMESPACE, a header with the
\* root's name ends with a validation error, with the error of
\* on_stream_header, or accepted at depth 1, and a valid one never with a
\* validation error.
C31_RefusedHeaderKeepsWaiting == [][C31_Step]_vars

\* A header with an unparsable version was refused after "to" was read.
C31_Witness ==
    /\ op = "startElementNS"
    /\ raised = UNSUPPORTED_VERSION
    /\ _state = STARTED
    /\ _depth = 0
    /\ remote_to # Nothing
    /\ fired = << >>
    /\ forwarded = << >>

\* This step is a characters call in STREAM_HEADER_PROCESSED in which the
\* consumer raised.
TextFailed ==
    /\ _state = STREAM_HEADER_PROCESSED
    /\ op' = "characters"
    /\ forwarded' # << >>
    /\ forwarded'[1].outcome \in ConsumerErrors

C32_Step ==
    /\ \A outcome \in ConsumerErrors :
           (_state = STREAM_HEADER_PROCESSED /\ characters(outcome)) =>
               TextFailed /\ forwarded'[1].outcome = outcome
    /\ TextFailed =>
           /\ Len(forwarded') = 1
           /\ forwarded'[1].event = "characters"
           /\ raised' = forwarded'[1].outcome
           /\ fired' = << >>
           /\ _state' = STREAM_HEADER_PROCESSED
           /\ _stored_exception = None
           /\ UNCHANGED <<_depth, _stored_exception, undelivered>>
    /\ (/\ _state = STREAM_HEADER_PROCESSED
        /\ op' = "startElementNS"
        /\ ConsumerRaised) =>
           /\ raised' = None
           /\ _state' = EXCEPTION
           /\ _stored_exception' = forwarded'[1].outcome

\* C32: in STREAM_HEADER_PROCESSED an error the consumer raises in
\* characters is raised to the caller of characters by that very call,
\* with no owner callback invoked and with the state, the depth and the
\* stored exception (none) as they were; an error the consumer raises in
\* startElementNS in the same state is stored instead and not raised.
C32_TextErrorPropagates == [][C32_Step]_vars

\* The consumer raised in characters inside a child of the root, with
\* on_exception registered.
C32_Witness ==
    /\ op = "characters"
    /\ raised = "exc1"
    /\ _state = STREAM_HEADER_PROCESSED
    /\ _depth = 2
    /\ _stored_exception = None
    /\ on_exception = Callable
    /\ fired = << >>

=============================================================================
